---------------------------- MODULE Spec2Model ----------------------------
(***************************************************************************)
(* The mind-map editor's tree store: the node and edge collections held by *)
(* the MindMapEditor component and the handlers that change them.          *)
(*                                                                         *)
(* The repository holds two revisions of the editor component,             *)
(* src/components/MindMapEditor.tsx and unnamed/part_001.  They differ in  *)
(* handleCreateChild / handleCreateSibling (placement, the root case) and  *)
(* in the drop thresholds; `variant` says which revision is running.       *)
(*                                                                         *)
(* One action is one event handler together with the render that commits   *)
(* its state updates (React 18 batches the setNodes/setEdges calls of one  *)
(* handler into one commit).                                               *)
(*                                                                         *)
(* Beside the editor the module holds the branch colorizer (lib/colors.ts), *)
(* the storage functions (lib/storage.ts) and the autosave effect of the   *)
(* editor; each has a specification of its own (SpecColor, SpecStorage,    *)
(* SpecSave).                                                              *)
(*                                                                         *)
(* Abstractions:                                                           *)
(*  - generateId() draws nine base-36 digits from Math.random; the model   *)
(*    hands out the next unused integer (collision-free draws), except in  *)
(*    SpecDraw and in duplicateMap, where a draw can answer any value.     *)
(*  - Date.now() is an input drawn from Times.                             *)
(*  - pointer coordinates are inputs.  A drop is given by the distance     *)
(*    from the pointer to every node's connection point (the value the     *)
(*    handlers compute with Math.sqrt), drawn from DistChoices.            *)
(***************************************************************************)
EXTENDS Integers, Sequences, FiniteSets, TLC

VARIABLES nodes, edges, idCount, variant, draggingEdgeId, nEdits, last,
          color, maps, ret, nCalls, mounted, timers, deps, timeoutId,
          storedKind, fault, selectedNodeId, selectedNodes, editing, held,
          keyLast, showGrid

vars == <<nodes, edges, idCount, variant, draggingEdgeId, nEdits, last,
          color, maps, ret, nCalls, mounted, timers, deps, timeoutId,
          storedKind, fault, selectedNodeId, selectedNodes, editing, held,
          keyLast, showGrid>>

\* the state of the editor component
editor == <<nodes, edges, idCount, variant, draggingEdgeId, nEdits, last>>

\* the autosave effect of the editor component: whether the component is
\* mounted, the timeouts that are pending, the nodes and edges the effect
\* last ran for, and the timeout that run has set
autosave == <<mounted, timers, deps, timeoutId>>

\* localStorage: what the value under STORAGE_KEY is (a list of maps, the
\* list `maps`; a text JSON.parse rejects; a JSON value that is no list) and
\* how localStorage fails (not at all; every access throws; setItem throws)
disk == <<storedKind, fault>>

\* the selection and the keyboard: the selected node (0: null), the
\* multi-selection of part_001 in the order of insertion, the node whose
\* text is being edited (0: none), the nodes and edges the handleDeleteNode
\* held by the multi-selection keydown listener closes over, the keydown
\* listener that was added to the document last, and whether the grid is on
ui == <<selectedNodeId, selectedNodes, editing, held, keyLast, showGrid>>

\* what the editor's handlers leave alone: the answer of the colorizer, the
\* list in localStorage, the answer of the storage functions, the effect
outside == <<color, maps, ret, nCalls, autosave, disk, ui>>

(* ------------------------------ bounds -------------------------------- *)

\* generateId() hands out at most MaxId ids in a behaviour
MaxId == 6

\* handleUpdateNode and handleEdgeDragEnd together rewrite a node or an
\* edge at most MaxEdits times in a behaviour
MaxEdits == 1

\* the values one generateId() call is let answer
MaxDraw == 3

\* the collections handed to getBranchColor have at most MaxBranches
\* children of the root and at most MaxDeep nodes below them
MaxBranches == 12

MaxDeep == 2

\* the storage functions are called at most MaxCalls times in a behaviour,
\* with map ids in 1..MaxMapId, at times in 1..MaxTime
MaxCalls == 3

MaxMapId == 2

MaxTime == 2

\* a drag moves a node to a point at most MaxOff to the right of and below
\* the place of the first root
MaxOff == 1

(* ------------------------- program constants -------------------------- *)

\* useState(20); the toolbar can set another size, the model keeps this one
gridSize == 20

\* the two revisions of the editor component
Variants == {"MindMapEditor.tsx", "part_001"}

\* position of the root node of a new map
RootX == 400
RootY == 300

\* distances (px) from a drop point to a node's connection point: Near is
\* nearer than every threshold, Far is farther away than every threshold
Near == 20
Far == 100
DistChoices == {Near, Far}

\* checkPotentialParent: const connectionThreshold
connectionThreshold(v) == IF v = "part_001" THEN 60 ELSE 80

\* handleEdgeDragEnd: distance < 50 (40 in part_001)
edgeThreshold(v) == IF v = "part_001" THEN 40 ELSE 50

\* an id generateId never hands out
NoId == 0

(* ------------------------------ helpers ------------------------------- *)

Min(S) == CHOOSE m \in S : \A k \in S : m <= k

Range(s) == {s[i] : i \in DOMAIN s}

\* a faulty find that answers the first node when no node has the id
FindNodeFirst(ns, id) ==
    LET S == {i \in DOMAIN ns : ns[i].id = id}
    IN  IF S = {} THEN 1 ELSE Min(S)

\* Array.prototype.find on the node collection: index of the first node
\* with this id, 0 when there is none
FindNode(ns, id) ==
    LET S == {i \in DOMAIN ns : ns[i].id = id}
    IN  IF S = {} THEN 0 ELSE Min(S)

\* edges.find(e => e.to === nodeId): index of the first edge into nodeId
FindEdgeTo(es, nodeId) ==
    LET S == {i \in DOMAIN es : es[i].to = nodeId}
    IN  IF S = {} THEN 0 ELSE Min(S)

\* edges.find(e => e.id === edgeId)
FindEdgeId(es, edgeId) ==
    LET S == {i \in DOMAIN es : es[i].id = edgeId}
    IN  IF S = {} THEN 0 ELSE Min(S)

\* Array.prototype.filter
RECURSIVE Filter(_, _)
Filter(s, keep) ==
    IF s = <<>> THEN <<>>
    ELSE IF Head(s) \in keep THEN <<Head(s)>> \o Filter(Tail(s), keep)
         ELSE Filter(Tail(s), keep)

\* the n-th id generateId() returns in the running handler
generateId(n) == idCount + n

\* { ...node, ...updates }
Spread(node, updates) == updates @@ node

\* a faulty map that puts the new child in front: [childId, ...node.children]
AppendChildFront(ns, parentId, childId) ==
    [i \in DOMAIN ns |->
        IF ns[i].id = parentId
        THEN Spread(ns[i], [children |-> <<childId>> \o ns[i].children])
        ELSE ns[i]]

\* nodes.map(node => node.id === parentId
\*              ? { ...node, children: [...node.children, childId] } : node)
AppendChild(ns, parentId, childId) ==
    [i \in DOMAIN ns |->
        IF ns[i].id = parentId
        THEN Spread(ns[i], [children |-> Append(ns[i].children, childId)])
        ELSE ns[i]]

NewNode(id, px, py) ==
    [id |-> id, text |-> "New Node", x |-> px, y |-> py, children |-> <<>>]

NewEdge(id, from, to) == [id |-> id, from |-> from, to |-> to]

(* ---------------------- the shape of the collections ----------------- *)

NodeIds(ns) == {ns[i].id : i \in DOMAIN ns}

HasEdge(es, p, c) == \E i \in DOMAIN es : es[i].from = p /\ es[i].to = c

\* the number of edges into c
InDegree(es, c) == Cardinality({i \in DOMAIN es : es[i].to = c})

\* the ids reached from `seen` by following edges
RECURSIVE EdgeReachFrom(_, _, _)
EdgeReachFrom(es, frontier, seen) ==
    IF frontier = {} THEN seen
    ELSE LET next == {es[i].to : i \in {j \in DOMAIN es : es[j].from \in frontier}}
         IN  EdgeReachFrom(es, next \ seen, seen \cup next)

\* the ids reached from a over one edge or more
EdgeDescendants(es, a) ==
    LET first == {es[i].to : i \in {j \in DOMAIN es : es[j].from = a}}
    IN  EdgeReachFrom(es, first, first)

Acyclic(ns, es) == \A n \in NodeIds(ns) : n \notin EdgeDescendants(es, n)

\* children lists and edges say the same
Consistent(ns, es) ==
    /\ \A i \in DOMAIN es :
         \E p \in DOMAIN ns : /\ ns[p].id = es[i].from
                              /\ es[i].to \in Range(ns[p].children)
    /\ \A p \in DOMAIN ns :
         \A c \in Range(ns[p].children) : HasEdge(es, ns[p].id, c)

\* a single-rooted tree whose root is the first node
ValidTree(ns, es) ==
    Len(ns) > 0 =>
        /\ InDegree(es, ns[1].id) = 0
        /\ \A i \in 2..Len(ns) : InDegree(es, ns[i].id) = 1
        /\ Acyclic(ns, es)
        /\ Consistent(ns, es)

(* ------------------------------- Init --------------------------------- *)

\* deps before the autosave effect ran
NoDeps == [nodes |-> <<>>, edges |-> <<>>, ran |-> FALSE]

\* ret before a storage function was called
NoRet == [op |-> "none", id |-> 0, value |-> 0]

\* color before getBranchColor was called
NoCall == [branchId |-> 0, value |-> "(not called)"]

\* the map createNewMap has saved and the editor page has loaded
LoadedMap ==
    [id |-> 1, name |-> "Map",
     nodes |-> <<[id |-> 1, text |-> "Root", x |-> RootX, y |-> RootY,
                  children |-> <<>>]>>,
     edges |-> <<>>, createdAt |-> 0, updatedAt |-> 0]

\* createNewMap: one root node, no edges; the root has the first id drawn
Init ==
    /\ variant \in Variants
    /\ nodes = <<[id |-> 1, text |-> "Root", x |-> RootX, y |-> RootY,
                  children |-> <<>>]>>
    /\ edges = <<>>
    /\ idCount = 1
    /\ draggingEdgeId = 0
    /\ nEdits = 0
    /\ last = [op |-> "init", id |-> 0, to |-> 0, gone |-> {}, threw |-> FALSE,
               tree |-> TRUE]
    /\ color = NoCall
    /\ maps = <<LoadedMap>>
    /\ ret = NoRet
    /\ nCalls = 0
    /\ mounted = TRUE
    /\ timers = {}
    /\ deps = NoDeps
    /\ timeoutId = 0
    /\ storedKind = "list"
    /\ fault = "none"
    /\ selectedNodeId = 0
    /\ selectedNodes = <<>>
    /\ editing = 0
    /\ held = [nodes |-> nodes, edges |-> edges]
    /\ keyLast = "multi"
    /\ showGrid = TRUE

\* the effect that creates the root runs before the next event is handled
Idle == mounted /\ Len(nodes) > 0

\* last (history): the handler that ran last, the id it was called with,
\* the node a drop landed on (0: none), the ids handleDeleteNode collected,
\* whether the handler ended in an exception, and (tree) FALSE when
\* handleDeleteNode ran on collections that were no valid tree
Ran(op, id, to, gone, threw, tree) ==
    /\ last' = [op |-> op, id |-> id, to |-> to, gone |-> gone,
                threw |-> threw, tree |-> tree]
    /\ UNCHANGED outside

Did(op, id, to) == Ran(op, id, to, {}, FALSE, TRUE)

(* -------------------------- handleCreateChild ------------------------- *)

ChildX(parent, root) ==
    IF variant = "part_001"
    THEN (IF parent.x < root.x THEN parent.x - 50 ELSE parent.x + 50)
    ELSE parent.x + 200

\* handleCreateChild when its two generateId() calls answer childId and
\* edgeId
CreateChildWith(parentId, childId, edgeId) ==
    /\ Idle
    /\ LET p == FindNode(nodes, parentId) IN
       IF p = 0
       THEN UNCHANGED <<nodes, edges, idCount>>
       ELSE /\ idCount + 2 <= MaxId
            /\ LET parent  == nodes[p]
                   childNode == NewNode(childId, ChildX(parent, nodes[1]),
                                        parent.y + 100)
                   newEdge == NewEdge(edgeId, parentId, childId)
               IN  /\ nodes' = Append(AppendChild(nodes, parentId, childId),
                                      childNode)
                   /\ edges' = Append(edges, newEdge)
                   /\ idCount' = idCount + 2
    /\ Did("createChild", parentId, 0)
    /\ UNCHANGED <<variant, draggingEdgeId, nEdits>>

handleCreateChild(parentId) ==
    CreateChildWith(parentId, generateId(1), generateId(2))

(* ------------------------- handleCreateSibling ------------------------ *)

SiblingX(node, root) ==
    IF variant = "part_001"
    THEN (IF node.x < root.x THEN node.x - 250 ELSE node.x + 250)
    ELSE node.x + 200

\* the sibling is added under the node at the other end of the first edge
\* into nodeId; nothing happens when there is no such edge or no such node
SiblingUnderParent(nodeId, siblingId, edgeId) ==
    LET node == nodes[FindNode(nodes, nodeId)]
        e    == FindEdgeTo(edges, nodeId)
    IN  IF e = 0 \/ FindNode(nodes, edges[e].from) = 0
        THEN UNCHANGED <<nodes, edges, idCount>>
        ELSE /\ idCount + 2 <= MaxId
             /\ LET siblingNode == NewNode(siblingId,
                                           SiblingX(node, nodes[1]), node.y)
                    newEdge == NewEdge(edgeId, edges[e].from, siblingId)
                IN  /\ nodes' = Append(AppendChild(nodes, edges[e].from,
                                                   siblingId), siblingNode)
                    /\ edges' = Append(edges, newEdge)
                    /\ idCount' = idCount + 2

\* part_001 only: Enter on the root adds a child of the root on its left
SiblingOfRoot(siblingId, edgeId) ==
    /\ idCount + 2 <= MaxId
    /\ LET rootNode == nodes[1]
           siblingNode == NewNode(siblingId, rootNode.x - 250, rootNode.y + 100)
           newEdge == NewEdge(edgeId, rootNode.id, siblingId)
       IN  /\ nodes' = Append(AppendChild(nodes, rootNode.id, siblingId),
                              siblingNode)
           /\ edges' = Append(edges, newEdge)
           /\ idCount' = idCount + 2

\* handleCreateSibling when its two generateId() calls answer siblingId and
\* edgeId
CreateSiblingWith(nodeId, siblingId, edgeId) ==
    /\ Idle
    /\ IF FindNode(nodes, nodeId) = 0
       THEN UNCHANGED <<nodes, edges, idCount>>
       ELSE IF variant = "part_001" /\ nodeId = nodes[1].id
            THEN SiblingOfRoot(siblingId, edgeId)
            ELSE SiblingUnderParent(nodeId, siblingId, edgeId)
    /\ Did("createSibling", nodeId, 0)
    /\ UNCHANGED <<variant, draggingEdgeId, nEdits>>

handleCreateSibling(nodeId) ==
    CreateSiblingWith(nodeId, generateId(1), generateId(2))

(* --------------------------- handleDeleteNode ------------------------- *)

ChildrenOf(ns, id) ==
    IF FindNode(ns, id) = 0 THEN <<>> ELSE ns[FindNode(ns, id)].children

\* the ids reached from `seen` by following children lists
RECURSIVE ReachFrom(_, _, _)
ReachFrom(ns, frontier, seen) ==
    IF frontier = {} THEN seen
    ELSE LET next == UNION {Range(ChildrenOf(ns, f)) : f \in frontier}
         IN  ReachFrom(ns, next \ seen, seen \cup next)

\* a faulty collection that stops at the children of id
findDescendantsShallow(ns, id) == {id} \cup Range(ChildrenOf(ns, id))

\* findDescendants(id): adds id, then recurses into the children of the
\* node with that id; the set it leaves behind when the recursion ends
findDescendants(ns, id) == ReachFrom(ns, {id}, {id})

\* findDescendants keeps no visited set: the recursion never ends (and the
\* engine throws RangeError) when a node it reaches lies on a cycle of
\* children lists
Overflows(ns, id) ==
    \E n \in findDescendants(ns, id) :
        \E c \in Range(ChildrenOf(ns, n)) : n \in findDescendants(ns, c)

\* nodes.filter(n => !descendants.has(n.id)), then the removed ids are
\* stripped from every children list
RECURSIVE RemoveNodes(_, _)
RemoveNodes(ns, gone) ==
    IF ns = <<>> THEN <<>>
    ELSE IF Head(ns).id \in gone THEN RemoveNodes(Tail(ns), gone)
         ELSE <<Spread(Head(ns),
                       [children |-> Filter(Head(ns).children,
                                            Range(Head(ns).children) \ gone)])>>
              \o RemoveNodes(Tail(ns), gone)

\* edges.filter(e => !descendants.has(e.from) && !descendants.has(e.to))
RECURSIVE RemoveEdges(_, _)
RemoveEdges(es, gone) ==
    IF es = <<>> THEN <<>>
    ELSE IF Head(es).from \in gone \/ Head(es).to \in gone
         THEN RemoveEdges(Tail(es), gone)
         ELSE <<Head(es)>> \o RemoveEdges(Tail(es), gone)

handleDeleteNode(nodeId) ==
    /\ Idle
    /\ IF Overflows(nodes, nodeId)
       THEN /\ UNCHANGED <<nodes, edges>>
            /\ Ran("delete", nodeId, 0, {}, TRUE, ValidTree(nodes, edges))
       ELSE LET descendants == findDescendants(nodes, nodeId) IN
            /\ nodes' = RemoveNodes(nodes, descendants)
            /\ edges' = RemoveEdges(edges, descendants)
            /\ nodes' = <<>> => idCount < MaxId
            /\ Ran("delete", nodeId, 0, descendants, FALSE,
                   ValidTree(nodes, edges))
    /\ UNCHANGED <<idCount, variant, draggingEdgeId, nEdits>>

\* a faulty effect whose root lists itself as a child
RootEffectSelf(rootId) ==
    /\ mounted
    /\ Len(nodes) = 0
    /\ nodes' = <<[id |-> rootId, text |-> "Start Here",
                   x |-> RootX, y |-> RootY, children |-> <<rootId>>]>>
    /\ idCount' = idCount + 1
    /\ Did("rootInit", rootId, 0)
    /\ UNCHANGED <<edges, variant, draggingEdgeId, nEdits>>

\* useEffect on nodes.length: an empty node collection gets a root
RootEffectWith(rootId) ==
    /\ mounted
    /\ Len(nodes) = 0
    /\ nodes' = <<[id |-> rootId, text |-> "Start Here",
                   x |-> RootX, y |-> RootY, children |-> <<>>]>>
    /\ idCount' = idCount + 1
    /\ Did("rootInit", rootId, 0)
    /\ UNCHANGED <<edges, variant, draggingEdgeId, nEdits>>

InitRootEffect == RootEffectWith(generateId(1))

(* --------------------------- handleUpdateNode ------------------------- *)

\* !node.collapsed, where collapsed is an optional field
Collapsed(node) == "collapsed" \in DOMAIN node /\ node.collapsed

\* the updates the Node component of node nodeId can pass: onTextChange,
\* onPositionChange, onToggleCollapse.  When no node has the id, the
\* updates are those of a Node that once showed it.
UpdateChoices(nodeId) ==
    LET i == FindNode(nodes, nodeId) IN
    {[text |-> "t"], [x |-> 100, y |-> 300],
     [collapsed |-> IF i = 0 THEN TRUE ELSE ~Collapsed(nodes[i])]}

\* a faulty map without the id test: every node gets the updates
UpdateNodesAll(ns, nodeId, updates) ==
    [i \in DOMAIN ns |-> Spread(ns[i], updates)]

\* nodes.map(node => node.id === nodeId ? { ...node, ...updates } : node)
UpdateNodes(ns, nodeId, updates) ==
    [i \in DOMAIN ns |->
        IF ns[i].id = nodeId THEN Spread(ns[i], updates) ELSE ns[i]]

handleUpdateNode(nodeId, updates) ==
    /\ Idle
    /\ nEdits < MaxEdits
    /\ nodes' = UpdateNodes(nodes, nodeId, updates)
    /\ nEdits' = nEdits + 1
    /\ Did("update", nodeId, 0)
    /\ UNCHANGED <<edges, idCount, variant, draggingEdgeId>>

(* ------------------- drag and drop: reparenting a node ---------------- *)

\* checkForCircularReference(childId, parentId): depth-first search over
\* children lists that starts at parentId and answers true when it pops
\* childId
RECURSIVE circularLoop(_, _, _, _)
circularLoop(ns, childId, stack, visited) ==
    IF stack = <<>> THEN FALSE
    ELSE LET currentId == stack[Len(stack)]
             rest == SubSeq(stack, 1, Len(stack) - 1)
         IN  IF currentId = childId THEN TRUE
             ELSE IF currentId \in visited
                  THEN circularLoop(ns, childId, rest, visited)
                  ELSE circularLoop(ns, childId,
                                    rest \o ChildrenOf(ns, currentId),
                                    visited \cup {currentId})

checkForCircularReference(ns, childId, parentId) ==
    circularLoop(ns, childId, <<parentId>>, {})

\* the loop of checkPotentialParent over nodes[i..]; best is the index of
\* closestParent (0: null), whose distance is minDistance
RECURSIVE closestLoop(_, _, _, _, _)
closestLoop(ns, draggedNodeId, dist, i, best) ==
    IF i > Len(ns) THEN best
    ELSE IF ns[i].id = draggedNodeId
         THEN closestLoop(ns, draggedNodeId, dist, i + 1, best)
         ELSE IF /\ dist[i] < connectionThreshold(variant)
                 /\ (best = 0 \/ dist[i] < dist[best])
                 /\ ~checkForCircularReference(ns, draggedNodeId, ns[i].id)
              THEN closestLoop(ns, draggedNodeId, dist, i + 1, i)
              ELSE closestLoop(ns, draggedNodeId, dist, i + 1, best)

\* index of the node the drop lands on, 0 when there is none
checkPotentialParent(ns, draggedNodeId, dist) ==
    IF FindNode(ns, draggedNodeId) = 0 THEN 0
    ELSE closestLoop(ns, draggedNodeId, dist, 1, 0)

\* the node collection after reassignParent(nodeId, newParentId)
ReassignNodes(ns, es, nodeId, newParentId) ==
    LET oldEdge == FindEdgeTo(es, nodeId) IN
    [i \in DOMAIN ns |->
        IF ns[i].id = newParentId
        THEN Spread(ns[i], [children |-> Append(ns[i].children, nodeId)])
        ELSE IF oldEdge # 0 /\ ns[i].id = es[oldEdge].from
             THEN Spread(ns[i],
                         [children |-> Filter(ns[i].children,
                                              Range(ns[i].children) \ {nodeId})])
             ELSE ns[i]]

RECURSIVE DropEdgeId(_, _)
DropEdgeId(es, edgeId) ==
    IF es = <<>> THEN <<>>
    ELSE IF Head(es).id = edgeId THEN DropEdgeId(Tail(es), edgeId)
         ELSE <<Head(es)>> \o DropEdgeId(Tail(es), edgeId)

\* the edge collection after reassignParent(nodeId, newParentId)
ReassignEdges(es, nodeId, newParentId, newEdgeId) ==
    LET oldEdge == FindEdgeTo(es, nodeId)
        filteredEdges == IF oldEdge # 0 THEN DropEdgeId(es, es[oldEdge].id)
                         ELSE es
    IN  Append(filteredEdges, NewEdge(newEdgeId, newParentId, nodeId))

reassignParent(nodeId, newParentId, edgeId) ==
    /\ idCount + 1 <= MaxId
    /\ nodes' = ReassignNodes(nodes, edges, nodeId, newParentId)
    /\ edges' = ReassignEdges(edges, nodeId, newParentId, edgeId)
    /\ idCount' = idCount + 1

\* handleDragEnd when the generateId() call of reassignParent answers edgeId
DragEndWith(nodeId, dist, edgeId) ==
    /\ Idle
    /\ LET potentialParent == checkPotentialParent(nodes, nodeId, dist) IN
       IF potentialParent # 0
       THEN /\ reassignParent(nodeId, nodes[potentialParent].id, edgeId)
            /\ Did("dragEnd", nodeId, nodes[potentialParent].id)
       ELSE /\ UNCHANGED <<nodes, edges, idCount>>
            /\ Did("dragEnd", nodeId, 0)
    /\ UNCHANGED <<variant, draggingEdgeId, nEdits>>

handleDragEnd(nodeId, dist) == DragEndWith(nodeId, dist, generateId(1))

(* -------------------- drag and drop: moving an edge ------------------- *)

\* the Edge elements on screen: edges whose two end nodes are found
Rendered(e) == FindNode(nodes, e.from) # 0 /\ FindNode(nodes, e.to) # 0

handleEdgeDragStart(edgeId) ==
    /\ Idle
    /\ \E i \in DOMAIN edges : edges[i].id = edgeId /\ Rendered(edges[i])
    /\ draggingEdgeId' = edgeId
    /\ Did("edgeDragStart", edgeId, 0)
    /\ UNCHANGED <<nodes, edges, idCount, variant, nEdits>>

\* the loop of handleEdgeDragEnd over nodes[i..]
RECURSIVE targetLoop(_, _, _, _)
targetLoop(ns, dist, i, best) ==
    IF i > Len(ns) THEN best
    ELSE IF /\ (best = 0 \/ dist[i] < dist[best])
            /\ dist[i] < edgeThreshold(variant)
         THEN targetLoop(ns, dist, i + 1, i)
         ELSE targetLoop(ns, dist, i + 1, best)

\* prevEdges.map(e => e.id === edge.id ? newEdge : e)
Retarget(es, edge, to) ==
    [i \in DOMAIN es |->
        IF es[i].id = edge.id THEN Spread(edge, [to |-> to]) ELSE es[i]]

handleEdgeDragEnd(dist) ==
    /\ Idle
    /\ \E i \in DOMAIN edges : Rendered(edges[i])
    /\ LET e == FindEdgeId(edges, draggingEdgeId) IN
       IF draggingEdgeId = 0 \/ e = 0
       THEN /\ UNCHANGED <<edges, draggingEdgeId, nEdits>>
            /\ Did("edgeDragEnd", draggingEdgeId, 0)
       ELSE LET targetNode == targetLoop(nodes, dist, 1, 0) IN
            /\ IF /\ targetNode # 0
                  /\ nodes[targetNode].id # edges[e].from
                  /\ nodes[targetNode].id # edges[e].to
               THEN /\ nEdits < MaxEdits
                    /\ edges' = Retarget(edges, edges[e], nodes[targetNode].id)
                    /\ nEdits' = nEdits + 1
                    /\ Did("edgeDragEnd", draggingEdgeId, nodes[targetNode].id)
               ELSE /\ UNCHANGED <<edges, nEdits>>
                    /\ Did("edgeDragEnd", draggingEdgeId, 0)
            /\ draggingEdgeId' = 0
    /\ UNCHANGED <<nodes, idCount, variant>>

(* ------------------------------ colors.ts ----------------------------- *)

\* a palette that holds the color of the root
BRANCH_COLORS_Neutral ==
    <<"#9CA3AF", "#D97706", "#DC2626", "#7C3AED", "#0891B2", "#EA580C",
      "#DB2777", "#65A30D", "#4F46E5", "#0D9488", "#E11D48">>

BRANCH_COLORS ==
    <<"#6B7280", "#D97706", "#DC2626", "#7C3AED", "#0891B2", "#EA580C",
      "#DB2777", "#65A30D", "#4F46E5", "#0D9488", "#E11D48">>

\* the color getBranchColor returns for the root node
ROOT_COLOR == "#9CA3AF"

\* findRootBranchId's answer null is NoId; Forever stands for a while loop
\* that never ends, NeverReturns for a getBranchColor call that never returns
Forever == -1

NeverReturns == "(never returns)"

\* a faulty indexOf that answers 0 for every member
indexOfMember(s, x) == IF x \in Range(s) THEN 0 ELSE -1

\* Array.prototype.indexOf: the first index (from 0) of x in s, -1 if none
indexOf(s, x) ==
    IF x \in Range(s)
    THEN Min({i \in DOMAIN s : s[i] = x}) - 1
    ELSE -1

\* the while loop of findRootBranchId.  Its only state is currentNodeId, so
\* it never ends once currentNodeId takes a value it had before (seen).
RECURSIVE traceBack(_, _, _, _, _)
traceBack(rootNode, allNodes, allEdges, currentNodeId, seen) ==
    IF currentNodeId = NoId THEN NoId
    ELSE IF currentNodeId \in seen THEN Forever
    ELSE IF FindNode(allNodes, currentNodeId) = 0 THEN NoId
    ELSE IF currentNodeId \in Range(rootNode.children) THEN currentNodeId
    ELSE IF FindEdgeTo(allEdges, currentNodeId) = 0 THEN NoId
    ELSE traceBack(rootNode, allNodes, allEdges,
                   allEdges[FindEdgeTo(allEdges, currentNodeId)].from,
                   seen \cup {currentNodeId})

\* a faulty walk that never follows an edge
findRootBranchIdNoWalk(nodeId, allNodes, allEdges) ==
    IF allNodes = <<>> THEN NoId
    ELSE IF nodeId \in Range(allNodes[1].children) THEN nodeId
    ELSE NoId

findRootBranchId(nodeId, allNodes, allEdges) ==
    IF allNodes = <<>> THEN NoId
    ELSE IF nodeId \in Range(allNodes[1].children) THEN nodeId
    ELSE traceBack(allNodes[1], allNodes, allEdges, nodeId, {})

RECURSIVE getBranchColor(_, _, _)
getBranchColor(branchId, allNodes, allEdges) ==
    IF allNodes = <<>> THEN BRANCH_COLORS[1]
    ELSE IF branchId = allNodes[1].id THEN ROOT_COLOR
    ELSE LET rootNode == allNodes[1]
             rootBranchId == findRootBranchId(branchId, allNodes, allEdges)
             branchIndex == indexOf(rootNode.children, branchId)
         IN  IF rootBranchId = Forever THEN NeverReturns
             ELSE IF rootBranchId = NoId THEN BRANCH_COLORS[1]
             ELSE IF rootBranchId = branchId /\ branchIndex >= 0
                  THEN BRANCH_COLORS[Min({branchIndex,
                                          Len(BRANCH_COLORS) - 1}) + 1]
                  ELSE getBranchColor(rootBranchId, allNodes, allEdges)

\* a call getBranchColor(branchId, nodes, edges), the first of a behaviour
\* (the function reads nothing but its arguments)
Paint(branchId) ==
    /\ color = NoCall
    /\ color' = [branchId |-> branchId,
                 value |-> getBranchColor(branchId, nodes, edges)]
    /\ UNCHANGED <<editor, maps, ret, nCalls, autosave, disk, ui>>

(* ------------------------------ storage.ts ---------------------------- *)

\* the answer null of getMap and duplicateMap
NoMap == [id |-> NoId]

\* maps.findIndex(m => m.id === id), from 1; 0 when there is none
FindMap(ms, id) ==
    LET S == {i \in DOMAIN ms : ms[i].id = id}
    IN  IF S = {} THEN 0 ELSE Min(S)

\* storage.getMap(id)
getMap(ms, id) == IF FindMap(ms, id) = 0 THEN NoMap ELSE ms[FindMap(ms, id)]

\* a faulty saveMap that always pushes
saveMapPush(ms, map, t) ==
    Append(ms, Spread(map, [createdAt |-> t, updatedAt |-> t]))

\* the list storage.saveMap(map) writes when Date.now() answers t
saveMap(ms, map, t) ==
    LET existingIndex == FindMap(ms, map.id) IN
    IF existingIndex > 0
    THEN [ms EXCEPT ![existingIndex] = Spread(map, [updatedAt |-> t])]
    ELSE Append(ms, Spread(map, [createdAt |-> t, updatedAt |-> t]))

\* the object duplicateMap builds from the original, generateId() answering
\* newId and Date.now() answering t
duplicated(original, newId, t) ==
    Spread(original, [id |-> newId, name |-> original.name \o " (Copy)",
                      createdAt |-> t, updatedAt |-> t])

Times == 1..MaxTime

MapIds == 1..MaxMapId

\* the maps a caller hands to saveMap: an id, a name, one of two node and
\* edge collections, and the time stamps it had when it was read
MapChoices ==
    {[id |-> id, name |-> "Map", nodes |-> ns, edges |-> <<>>,
      createdAt |-> 0, updatedAt |-> 0] :
        id \in MapIds,
        ns \in {<<NewNode(1, RootX, RootY)>>,
                <<NewNode(1, RootX, RootY), NewNode(2, RootX, RootY)>>}}

CallSaveMap(map, t) ==
    /\ nCalls < MaxCalls
    /\ nCalls' = nCalls + 1
    /\ maps' = saveMap(maps, map, t)
    /\ ret' = [op |-> "saveMap", id |-> map.id, value |-> map, at |-> t]
    /\ UNCHANGED <<editor, color, autosave, disk, ui>>

\* duplicateMap(id); its second Date.now(), in saveMap, answers t2
CallDuplicateMap(id, newId, t, t2) ==
    /\ nCalls < MaxCalls
    /\ nCalls' = nCalls + 1
    /\ LET original == getMap(maps, id) IN
       IF original = NoMap
       THEN /\ UNCHANGED maps
            /\ ret' = [op |-> "duplicateMap", id |-> id, value |-> NoMap]
       ELSE /\ maps' = saveMap(maps, duplicated(original, newId, t), t2)
            /\ ret' = [op |-> "duplicateMap", id |-> id,
                       value |-> duplicated(original, newId, t)]
    /\ UNCHANGED <<editor, color, autosave, disk, ui>>

(* --------------------- storage.ts, localStorage failing --------------- *)

StoredKinds == {"list", "unparsable", "object"}

Faults == {"none", "unavailable", "quota"}

\* storage.getAllMaps(): its try/catch turns a throwing getItem and a
\* throwing JSON.parse into []; a JSON value that is no list is returned as
\* it is (isList FALSE)
getAllMaps ==
    IF fault = "unavailable" \/ storedKind = "unparsable"
    THEN [isList |-> TRUE, maps |-> <<>>]
    ELSE IF storedKind = "object"
         THEN [isList |-> FALSE, maps |-> <<>>]
         ELSE [isList |-> TRUE, maps |-> maps]

\* localStorage.setItem throws
SetItemThrows == fault # "none"

\* maps.filter(map => map.id !== id)
RECURSIVE WithoutMap(_, _)
WithoutMap(ms, id) ==
    IF ms = <<>> THEN <<>>
    ELSE IF Head(ms).id = id THEN WithoutMap(Tail(ms), id)
         ELSE <<Head(ms)>> \o WithoutMap(Tail(ms), id)

\* what a call left behind: its name, its id argument, its answer and
\* whether it ended in an exception
Answer(op, id, value, threw) ==
    ret' = [op |-> op, id |-> id, value |-> value, threw |-> threw]

TryGetAllMaps ==
    /\ nCalls < MaxCalls
    /\ nCalls' = nCalls + 1
    /\ Answer("getAllMaps", 0, getAllMaps, FALSE)
    /\ UNCHANGED <<editor, color, autosave, maps, disk, ui>>

\* storage.getMap(id): maps.find is no function when maps is no list
TryGetMap(id) ==
    /\ nCalls < MaxCalls
    /\ nCalls' = nCalls + 1
    /\ IF getAllMaps.isList
       THEN Answer("getMap", id, getMap(getAllMaps.maps, id), FALSE)
       ELSE Answer("getMap", id, NoMap, TRUE)
    /\ UNCHANGED <<editor, color, autosave, maps, disk, ui>>

\* the write at the end of saveMap and deleteMap, inside their try
SetItem(ms) ==
    IF SetItemThrows
    THEN UNCHANGED <<maps, disk>>
    ELSE /\ maps' = ms
         /\ storedKind' = "list"
         /\ UNCHANGED fault

\* storage.saveMap(map): maps.findIndex throws inside the try when maps is
\* no list
TrySaveMap(map, t) ==
    /\ nCalls < MaxCalls
    /\ nCalls' = nCalls + 1
    /\ IF getAllMaps.isList
       THEN SetItem(saveMap(getAllMaps.maps, map, t))
       ELSE UNCHANGED <<maps, disk>>
    /\ Answer("saveMap", map.id, map, FALSE)
    /\ UNCHANGED <<editor, color, autosave, ui>>

\* storage.deleteMap(id)
TryDeleteMap(id) ==
    /\ nCalls < MaxCalls
    /\ nCalls' = nCalls + 1
    /\ IF getAllMaps.isList
       THEN SetItem(WithoutMap(getAllMaps.maps, id))
       ELSE UNCHANGED <<maps, disk>>
    /\ Answer("deleteMap", id, NoMap, FALSE)
    /\ UNCHANGED <<editor, color, autosave, ui>>

\* storage.duplicateMap(id): getMap outside any try, then saveMap
TryDuplicateMap(id, newId, t) ==
    /\ nCalls < MaxCalls
    /\ nCalls' = nCalls + 1
    /\ IF ~getAllMaps.isList
       THEN /\ Answer("duplicateMap", id, NoMap, TRUE)
            /\ UNCHANGED <<maps, disk>>
       ELSE LET original == getMap(getAllMaps.maps, id) IN
            IF original = NoMap
            THEN /\ Answer("duplicateMap", id, NoMap, FALSE)
                 /\ UNCHANGED <<maps, disk>>
            ELSE /\ SetItem(saveMap(getAllMaps.maps,
                                    duplicated(original, newId, t), t))
                 /\ Answer("duplicateMap", id,
                           duplicated(original, newId, t), FALSE)
    /\ UNCHANGED <<editor, color, autosave, ui>>

(* ------------------------------ autosave ------------------------------ *)

\* the dependencies [nodes, edges] of the autosave effect
Deps(ns, es) == [nodes |-> ns, edges |-> es, ran |-> TRUE]

\* a render has committed nodes or edges the effect has not run for.  The
\* handlers run in discrete events (click, keydown, mouseup), after which
\* React runs the effects before anything else.
EffectPending == mounted /\ deps # Deps(nodes, edges)

\* a faulty cleanup that clears nothing
clearTimeoutNone(ts, id) == ts

\* clearTimeout(timeoutId)
clearTimeout(ts, id) == {t \in ts : t.id # id}

\* the autosave effect: the cleanup of its last run, then setTimeout; the
\* callback closes over the nodes and edges of this render
AutosaveEffect ==
    /\ EffectPending
    /\ timers' = clearTimeout(timers, timeoutId)
                 \cup {[id |-> timeoutId + 1, nodes |-> nodes, edges |-> edges]}
    /\ timeoutId' = timeoutId + 1
    /\ deps' = Deps(nodes, edges)
    /\ UNCHANGED <<editor, color, maps, ret, nCalls, mounted, disk, ui>>

\* { ...mapRef.current, nodes, edges, updatedAt: Date.now() }
updatedMap(timer, t) ==
    Spread(LoadedMap, [nodes |-> timer.nodes, edges |-> timer.edges,
                       updatedAt |-> t])

\* a pending timeout expires, Date.now() answering t: onSave(updatedMap),
\* which is handleSave of the editor page
TimerFires(timer, t) ==
    /\ timer \in timers
    /\ ~EffectPending
    /\ timers' = timers \ {timer}
    /\ maps' = saveMap(maps, updatedMap(timer, t), t)
    /\ UNCHANGED <<editor, color, ret, nCalls, mounted, deps, timeoutId, disk,
                   ui>>

\* the editor page goes away (router.push, closing the tab): the cleanup of
\* the effect runs
Unmount ==
    /\ mounted
    /\ mounted' = FALSE
    /\ timers' = clearTimeout(timers, timeoutId)
    /\ UNCHANGED <<editor, color, maps, ret, nCalls, deps, timeoutId, disk, ui>>

(* -------------------------------- grid -------------------------------- *)

\* Math.round(v / gridSize) * gridSize, for an integer v >= 0
RoundToGrid(v) == ((2 * v + gridSize) \div (2 * gridSize)) * gridSize

\* snapToGrid(x, y) while showGrid is on
snapToGrid(on, x, y) ==
    IF ~on THEN [x |-> x, y |-> y]
    ELSE [x |-> RoundToGrid(x), y |-> RoundToGrid(y)]

\* the setNodes call of handleDragMove(nodeId, x, y): an updater that maps
\* the nodes it is given
DragMoveUpdater(prevNodes, nodeId, x, y) ==
    UpdateNodes(prevNodes, nodeId, snapToGrid(showGrid, x, y))

\* handleMouseMove of the Node element of a node that is being dragged, the
\* pointer at (newX, newY) in world coordinates: onDragMove queues the
\* updater of handleDragMove, onPositionChange queues the value
\* handleUpdateNode computes from the nodes of the render, and the commit
\* runs the queue in order
handleMouseMove(nodeId, newX, newY) ==
    /\ Idle
    /\ nodeId \in NodeIds(nodes)
    /\ nEdits < MaxEdits
    /\ LET queued == DragMoveUpdater(nodes, nodeId, newX, newY)
           value  == UpdateNodes(nodes, nodeId, [x |-> newX, y |-> newY])
       IN  nodes' = value
    /\ nEdits' = nEdits + 1
    /\ Did("dragMove", nodeId, 0)
    /\ UNCHANGED <<edges, idCount, variant, draggingEdgeId>>

\* onToggleGrid of the toolbar, and the G key
ToggleGrid ==
    /\ mounted
    /\ showGrid' = ~showGrid
    /\ UNCHANGED <<editor, color, maps, ret, nCalls, autosave, disk,
                   selectedNodeId, selectedNodes, editing, held, keyLast>>

(* ---------------------- selection and keyboard ------------------------ *)

\* the keys of the two keydown listeners of the editor and of the text
\* field of a node
Keys == {"Tab", "Enter", "Delete", "Backspace", "Escape"}

\* node.id of every node, in the order of nodes
IdsOf(ns) == [i \in DOMAIN ns |-> ns[i].id]

\* new Set([...prev, id]): a Set iterates in the order of insertion
SetAdd(prev, id) == IF id \in Range(prev) THEN prev ELSE Append(prev, id)

\* the render that follows a change of selectedNodes: the multi-selection
\* effect runs again (its dependencies are [selectedNodes]), after the
\* keyboard-shortcut effect, and its listener closes over the
\* handleDeleteNode of that render
MultiEffect(ns, es) ==
    /\ held' = [nodes |-> ns, edges |-> es]
    /\ keyLast' = "multi"

\* the keyboard-shortcut effect depends on selectedNodeId and on the
\* handlers, which change with nodes and edges: its listener is the one
\* added last when it ran after the multi-selection effect last ran
ShortcutsLast ==
    \/ keyLast = "shortcuts"
    \/ held # [nodes |-> nodes, edges |-> edges]

\* the Node element of a node is in edit mode
Editing == editing # 0 /\ editing \in NodeIds(nodes)

\* the node is selected (the mouse down of a click on one of the buttons of
\* a node reaches handleMouseDown of the node, which calls onSelect)
Selected(id) == selectedNodeId = id \/ id \in Range(selectedNodes)

\* onSelect of the Node element of a node (mouse down on the node)
onSelect(id) ==
    /\ Idle
    /\ id \in NodeIds(nodes)
    /\ IF variant = "part_001"
       THEN /\ IF Len(selectedNodes) > 1
               THEN /\ selectedNodes' = SetAdd(selectedNodes, id)
                    /\ selectedNodeId' = 0
               ELSE /\ selectedNodes' = <<id>>
                    /\ selectedNodeId' = id
            /\ MultiEffect(nodes, edges)
       ELSE /\ selectedNodeId' = id
            /\ keyLast' = "shortcuts"
            /\ UNCHANGED <<selectedNodes, held>>
    /\ UNCHANGED <<editor, color, maps, ret, nCalls, autosave, disk, editing,
                   showGrid>>

\* a click on the canvas itself
handleCanvasClick ==
    /\ Idle
    /\ selectedNodeId' = 0
    /\ keyLast' = "shortcuts"
    /\ UNCHANGED <<editor, color, maps, ret, nCalls, autosave, disk,
                   selectedNodes, editing, held, showGrid>>

\* a selection box drawn on the canvas of part_001 (handleCanvasMouseDown,
\* then handleCanvasMouseUp) around the centres of the nodes with an id in
\* box; ctrlKey: Ctrl or Cmd is held when the button goes down
SelectionBox(box, ctrlKey) ==
    /\ Idle
    /\ variant = "part_001"
    /\ LET selectedNodeIds == Filter(IdsOf(nodes), box) IN
       /\ selectedNodes' = selectedNodeIds
       /\ selectedNodeId' =
              IF Len(selectedNodeIds) = 1 THEN selectedNodeIds[1]
              ELSE IF Len(selectedNodeIds) > 1 \/ ~ctrlKey THEN 0
                   ELSE selectedNodeId
    /\ MultiEffect(nodes, edges)
    /\ UNCHANGED <<editor, color, maps, ret, nCalls, autosave, disk, editing,
                   showGrid>>

\* handleDoubleClick of a Node element; the two mouse downs of the double
\* click have called onSelect
handleDoubleClick(id) ==
    /\ Idle
    /\ id \in NodeIds(nodes)
    /\ IF variant = "part_001"
       THEN selectedNodeId = id \/ id \in Range(selectedNodes)
       ELSE selectedNodeId = id
    /\ editing' = id
    /\ UNCHANGED <<editor, color, maps, ret, nCalls, autosave, disk,
                   selectedNodeId, selectedNodes, held, keyLast, showGrid>>

\* handleTextKeyDown and handleTextBlur of the text field of a node: Enter,
\* Escape and the loss of focus end edit mode
handleTextKeyDown(key) ==
    /\ Idle
    /\ Editing
    /\ key \in {"Enter", "Escape"}
    /\ editing' = 0
    /\ UNCHANGED <<editor, color, maps, ret, nCalls, autosave, disk,
                   selectedNodeId, selectedNodes, held, keyLast, showGrid>>

\* what handleDeleteNode(nodeId) hands to setNodes and setEdges when it
\* closes over ns and es
afterDelete(ns, es, nodeId) ==
    [nodes |-> RemoveNodes(ns, findDescendants(ns, nodeId)),
     edges |-> RemoveEdges(es, findDescendants(ns, nodeId))]

\* selectedNodes.forEach(nodeId => handleDeleteNode(nodeId)): the calls that
\* return before one of them throws
DeleteCalls(ns, sel) ==
    LET throwing == {i \in DOMAIN sel : Overflows(ns, sel[i])}
    IN  IF throwing = {} THEN Len(sel) ELSE Min(throwing) - 1

\* what the loop over the first n ids of sel leaves in setNodes and
\* setEdges: every call of handleDeleteNode starts from the same ns and es
\* and replaces what the call before it has set
deleteEach(ns, es, sel, n) == afterDelete(ns, es, sel[n])

\* a key goes down with the focus in the document: Delete, Backspace and
\* Escape.  handleKeyDown of the keyboard-shortcut effect (shortcut), then
\* or before it handleKeyDown of the multi-selection effect of part_001
\* (multi); one commit follows the two listeners.
KeyClears(key) ==
    LET shortcut == selectedNodeId # 0 /\ key \in {"Delete", "Backspace"}
        threw1   == shortcut /\ Overflows(nodes, selectedNodeId)
        set1     == shortcut /\ ~threw1
        multi    == /\ variant = "part_001"
                    /\ \/ key = "Escape"
                       \/ key = "Delete" /\ Len(selectedNodes) > 0
        calls    == IF multi /\ key = "Delete"
                    THEN DeleteCalls(held.nodes, selectedNodes) ELSE 0
        threw2   == multi /\ key = "Delete" /\ calls < Len(selectedNodes)
        set2     == calls > 0
        cleared  == multi /\ ~threw2
        d1       == afterDelete(nodes, edges, selectedNodeId)
        d2       == deleteEach(held.nodes, held.edges, selectedNodes, calls)
        d        == IF set1 /\ (~set2 \/ ShortcutsLast) THEN d1
                    ELSE IF set2 THEN d2
                    ELSE [nodes |-> nodes, edges |-> edges]
    IN  /\ nodes' = d.nodes
        /\ edges' = d.edges
        /\ nodes' = <<>> => idCount < MaxId
        /\ selectedNodeId' = IF set1 \/ cleared THEN 0 ELSE selectedNodeId
        /\ selectedNodes' = IF cleared THEN <<>> ELSE selectedNodes
        /\ IF cleared THEN MultiEffect(d.nodes, d.edges)
           ELSE /\ keyLast' = IF set1 THEN "shortcuts" ELSE keyLast
                /\ UNCHANGED held
        /\ last' = [op |-> key, id |-> selectedNodeId, to |-> 0,
                    gone |-> NodeIds(nodes) \ NodeIds(d.nodes),
                    threw |-> threw1 \/ threw2,
                    tree |-> ValidTree(nodes, edges)]
        /\ UNCHANGED <<idCount, variant, draggingEdgeId, nEdits, color, maps,
                       ret, nCalls, autosave, disk, editing,
                   showGrid>>

\* a key goes down with the focus in the document or in the text field of
\* a node (the event reaches the listeners of the document from there)
handleKeyDown(key) ==
    /\ Idle
    /\ key \in Keys
    /\ CASE key = "Tab" ->
               selectedNodeId # 0 /\ handleCreateChild(selectedNodeId)
         [] key = "Enter" ->
               selectedNodeId # 0 /\ handleCreateSibling(selectedNodeId)
         [] OTHER -> KeyClears(key)

(* ---------------------------- specifications -------------------------- *)

\* a drop point within reach of the node at index b and of no other node
\* (b = 0: of no node)
DropOn(b) == [i \in DOMAIN nodes |-> IF i = b THEN Near ELSE Far]

\* the drop points, a subset of [DOMAIN nodes -> DistChoices].  The loops
\* of checkPotentialParent and handleEdgeDragEnd answer the first node in
\* reach that passes their tests, so a point in reach of several nodes ends
\* as the point in reach of that node alone does.
Drops == {DropOn(b) : b \in 0..Len(nodes)}

\* the ids a handler can be called with: the id of every node, and one id
\* that no node has
Ids == {nodes[i].id : i \in DOMAIN nodes} \cup {NoId}

EdgeIds == {edges[i].id : i \in DOMAIN edges}

\* the Tree Store operations: createChild, createSibling, deleteSubtree,
\* reparent
NextTree ==
    \/ \E id \in Ids : handleCreateChild(id)
    \/ \E id \in Ids : handleCreateSibling(id)
    \/ \E id \in Ids : handleDeleteNode(id)
    \/ InitRootEffect
    \/ \E id \in Ids : \E dist \in Drops : handleDragEnd(id, dist)

SpecTree == Init /\ [][NextTree]_vars

\* growing and pruning the tree, and updateNode
NextEdit ==
    \/ \E id \in Ids : handleCreateChild(id)
    \/ \E id \in Ids : handleCreateSibling(id)
    \/ \E id \in Ids : handleDeleteNode(id)
    \/ InitRootEffect
    \/ \E id \in Ids : \E updates \in UpdateChoices(id) :
            handleUpdateNode(id, updates)

SpecEdit == Init /\ [][NextEdit]_vars

\* the Tree Store operations with reparent and updateNode
NextStore ==
    \/ NextTree
    \/ \E id \in Ids : \E updates \in UpdateChoices(id) :
            handleUpdateNode(id, updates)

SpecStore == Init /\ [][NextStore]_vars

\* the values generateId() can answer: Math.random() is not told which ids
\* are in use, so every draw can answer every value
IdSpace == 1..MaxDraw

\* the handlers that call generateId(), with every answer it can give
NextDraw ==
    \/ \E id \in Ids : \E c, e \in IdSpace : CreateChildWith(id, c, e)
    \/ \E id \in Ids : \E c, e \in IdSpace : CreateSiblingWith(id, c, e)
    \/ \E id \in Ids : handleDeleteNode(id)
    \/ \E r \in IdSpace : RootEffectWith(r)
    \/ \E id \in Ids : \E dist \in Drops : \E e \in IdSpace :
            DragEndWith(id, dist, e)

SpecDraw == Init /\ [][NextDraw]_vars

\* the collections handed to getBranchColor: the root 1 with its children
\* 2..k+1 in the order `order`, and deep nodes k+2..k+d+1, each with one
\* incoming edge from parent[its id] (0: no incoming edge; k+d+2: an id no
\* node has).  Some are valid trees; in the others a chain of incoming edges
\* ends early, runs in a cycle, or reaches the root past its children list.
RECURSIVE SortedSeq(_)
SortedSeq(S) ==
    IF S = {} THEN <<>> ELSE <<Min(S)>> \o SortedSeq(S \ {Min(S)})

Ascending(k) == [i \in 1..k |-> i + 1]

Descending(k) == [i \in 1..k |-> k + 2 - i]

ColorNodes(k, d, order, parent) ==
    [i \in 1..(1 + k + d) |->
        [id |-> i, text |-> "", x |-> 0, y |-> 0,
         children |-> IF i = 1 THEN order
                      ELSE SortedSeq({c \in (k + 2)..(k + d + 1) :
                                        parent[c] = i})]]

ColorEdges(k, d, order, parent) ==
    LET cs == SortedSeq({c \in (k + 2)..(k + d + 1) : parent[c] # 0})
    IN  [i \in 1..k |-> NewEdge(order[i], 1, order[i])]
        \o [i \in DOMAIN cs |-> NewEdge(cs[i], parent[cs[i]], cs[i])]

InitColor ==
    /\ variant = "MindMapEditor.tsx"
    /\ \E k \in 0..MaxBranches : \E d \in 0..MaxDeep :
       \E order \in {Ascending(k), Descending(k)} :
       \E parent \in [(k + 2)..(k + d + 1) -> 0..(k + d + 2)] :
          /\ nodes = ColorNodes(k, d, order, parent)
          /\ edges = ColorEdges(k, d, order, parent)
    /\ idCount = MaxId
    /\ draggingEdgeId = 0
    /\ nEdits = 0
    /\ last = [op |-> "init", id |-> 0, to |-> 0, gone |-> {}, threw |-> FALSE,
               tree |-> TRUE]
    /\ color = NoCall
    /\ maps = <<>>
    /\ ret = NoRet
    /\ nCalls = 0
    /\ mounted = TRUE
    /\ timers = {}
    /\ deps = NoDeps
    /\ timeoutId = 0
    /\ storedKind = "list"
    /\ fault = "none"
    /\ selectedNodeId = 0
    /\ selectedNodes = <<>>
    /\ editing = 0
    /\ held = [nodes |-> nodes, edges |-> edges]
    /\ keyLast = "multi"
    /\ showGrid = TRUE

\* getBranchColor called with the id of a node, or with an id no node has
NextColor == \E id \in Ids : Paint(id)

SpecColor == InitColor /\ [][NextColor]_vars

\* the storage functions, called on the list they left behind, with every
\* answer generateId() and Date.now() can give
NextStorage ==
    \/ \E map \in MapChoices : \E t \in Times : CallSaveMap(map, t)
    \/ \E id \in MapIds \cup {MaxMapId + 1} : \E newId \in MapIds :
       \E t \in Times : \E t2 \in t..MaxTime :
            CallDuplicateMap(id, newId, t, t2)

\* localStorage holds no list yet
InitStorage ==
    /\ variant = "MindMapEditor.tsx"
    /\ nodes = <<NewNode(1, RootX, RootY)>>
    /\ edges = <<>>
    /\ idCount = 1
    /\ draggingEdgeId = 0
    /\ nEdits = 0
    /\ last = [op |-> "init", id |-> 0, to |-> 0, gone |-> {}, threw |-> FALSE,
               tree |-> TRUE]
    /\ color = NoCall
    /\ maps = <<>>
    /\ ret = NoRet
    /\ nCalls = 0
    /\ mounted = TRUE
    /\ timers = {}
    /\ deps = NoDeps
    /\ timeoutId = 0
    /\ storedKind = "list"
    /\ fault = "none"
    /\ selectedNodeId = 0
    /\ selectedNodes = <<>>
    /\ editing = 0
    /\ held = [nodes |-> nodes, edges |-> edges]
    /\ keyLast = "multi"
    /\ showGrid = TRUE

SpecStorage == InitStorage /\ [][NextStorage]_vars

\* handlers that change the collections, the autosave effect, its timeout
\* and the unmount of the editor
NextSave ==
    \/ \E id \in Ids : handleCreateChild(id)
    \/ \E id \in Ids : handleDeleteNode(id)
    \/ InitRootEffect
    \/ AutosaveEffect
    \/ \E timer \in timers : \E t \in Times : TimerFires(timer, t)
    \/ Unmount

SpecSave == Init /\ [][NextSave]_vars

\* React runs a pending effect, and the browser runs an expired timeout
SpecSaveLive ==
    /\ SpecSave
    /\ WF_vars(AutosaveEffect)
    /\ WF_vars(\E timer \in timers : \E t \in Times : TimerFires(timer, t))

\* localStorage in every condition, with or without a stored list
InitFault ==
    /\ variant = "MindMapEditor.tsx"
    /\ nodes = <<NewNode(1, RootX, RootY)>>
    /\ edges = <<>>
    /\ idCount = 1
    /\ draggingEdgeId = 0
    /\ nEdits = 0
    /\ last = [op |-> "init", id |-> 0, to |-> 0, gone |-> {}, threw |-> FALSE,
               tree |-> TRUE]
    /\ color = NoCall
    /\ storedKind \in StoredKinds
    /\ fault \in Faults
    /\ selectedNodeId = 0
    /\ selectedNodes = <<>>
    /\ editing = 0
    /\ held = [nodes |-> nodes, edges |-> edges]
    /\ keyLast = "multi"
    /\ showGrid = TRUE
    /\ maps \in IF storedKind = "list" THEN {<<>>, <<LoadedMap>>} ELSE {<<>>}
    /\ ret = NoRet
    /\ nCalls = 0
    /\ mounted = TRUE
    /\ timers = {}
    /\ deps = NoDeps
    /\ timeoutId = 0

\* the storage functions on a localStorage that can fail
NextFault ==
    \/ TryGetAllMaps
    \/ \E id \in MapIds : TryGetMap(id)
    \/ \E map \in MapChoices : \E t \in Times : TrySaveMap(map, t)
    \/ \E id \in MapIds : TryDeleteMap(id)
    \/ \E id, newId \in MapIds : \E t \in Times : TryDuplicateMap(id, newId, t)

SpecFault == InitFault /\ [][NextFault]_vars

\* the editor mounted on a map that was stored with or without nodes
InitRoot ==
    /\ variant \in Variants
    /\ nodes \in {<<>>, LoadedMap.nodes}
    /\ edges = <<>>
    /\ idCount = Len(nodes)
    /\ draggingEdgeId = 0
    /\ nEdits = 0
    /\ last = [op |-> "init", id |-> 0, to |-> 0, gone |-> {}, threw |-> FALSE,
               tree |-> TRUE]
    /\ color = NoCall
    /\ maps = <<Spread(LoadedMap, [nodes |-> nodes])>>
    /\ ret = NoRet
    /\ nCalls = 0
    /\ mounted = TRUE
    /\ timers = {}
    /\ deps = NoDeps
    /\ timeoutId = 0
    /\ storedKind = "list"
    /\ fault = "none"
    /\ selectedNodeId = 0
    /\ selectedNodes = <<>>
    /\ editing = 0
    /\ held = [nodes |-> nodes, edges |-> edges]
    /\ keyLast = "multi"
    /\ showGrid = TRUE

\* React runs the effect after the render that committed the empty
\* collection
SpecRootLive == InitRoot /\ [][NextTree]_vars /\ WF_vars(InitRootEffect)

\* every handler of the editor that changes nodes or edges
Next ==
    \/ NextStore
    \/ \E id \in EdgeIds : handleEdgeDragStart(id)
    \/ \E dist \in Drops : handleEdgeDragEnd(dist)


Spec == Init /\ [][Next]_vars

\* the sets of nodes a selection box can hold
Boxes == SUBSET NodeIds(nodes)

\* selecting and the keyboard: the buttons of a selected node (delete, add
\* child), the keys, the text field, and the effect that creates the root
NextKeys ==
    \/ \E id \in Ids : onSelect(id)
    \/ handleCanvasClick
    \/ \E box \in Boxes, ctrlKey \in BOOLEAN : SelectionBox(box, ctrlKey)
    \/ \E id \in Ids : handleDoubleClick(id)
    \/ \E key \in Keys : handleTextKeyDown(key)
    \/ \E key \in Keys : handleKeyDown(key)
    \/ \E id \in Ids : Selected(id) /\ handleDeleteNode(id)
    \/ \E id \in Ids : Selected(id) /\ handleCreateChild(id)
    \/ InitRootEffect

SpecKeys == Init /\ [][NextKeys]_vars

\* the points a drag moves a node to
Coords == {RootX + d : d \in 0..MaxOff} \cup {RootY + d : d \in 0..MaxOff}

\* dragging nodes over the grid
NextGrid ==
    \/ \E id \in Ids : handleCreateChild(id)
    \/ \E id \in Ids, x \in Coords, y \in Coords : handleMouseMove(id, x, y)
    \/ ToggleGrid

SpecGrid == Init /\ [][NextGrid]_vars

\* a map an earlier session has stored: the root, one branch below it and
\* two nodes below the branch; the ids are those the earlier session drew
StoredNodes ==
    <<[id |-> 1, text |-> "Root", x |-> RootX, y |-> RootY,
       children |-> <<12>>],
      [id |-> 12, text |-> "New Node", x |-> RootX + 200, y |-> RootY + 100,
       children |-> <<14, 16>>],
      [id |-> 14, text |-> "New Node", x |-> RootX + 400, y |-> RootY + 200,
       children |-> <<>>],
      [id |-> 16, text |-> "New Node", x |-> RootX + 400, y |-> RootY + 200,
       children |-> <<>>]>>

StoredEdges ==
    <<NewEdge(13, 1, 12), NewEdge(15, 12, 14), NewEdge(17, 12, 16)>>

\* the editor mounted on the stored map
InitStored ==
    /\ variant \in Variants
    /\ nodes = StoredNodes
    /\ edges = StoredEdges
    /\ idCount = Len(nodes)
    /\ draggingEdgeId = 0
    /\ nEdits = 0
    /\ last = [op |-> "init", id |-> 0, to |-> 0, gone |-> {}, threw |-> FALSE,
               tree |-> TRUE]
    /\ color = NoCall
    /\ maps = <<Spread(LoadedMap, [nodes |-> nodes, edges |-> edges])>>
    /\ ret = NoRet
    /\ nCalls = 0
    /\ mounted = TRUE
    /\ timers = {}
    /\ deps = NoDeps
    /\ timeoutId = 0
    /\ storedKind = "list"
    /\ fault = "none"
    /\ selectedNodeId = 0
    /\ selectedNodes = <<>>
    /\ editing = 0
    /\ held = [nodes |-> nodes, edges |-> edges]
    /\ keyLast = "multi"
    /\ showGrid = TRUE

\* the Tree Store operations on the stored map
SpecStored == InitStored /\ [][NextTree]_vars

(* ------------------------------- claims ------------------------------- *)

\* the ids reached from a by following children lists, over one step or more
ChildDescendants(ns, a) ==
    LET first == Range(ChildrenOf(ns, a)) IN ReachFrom(ns, first, first)

\* the nodes whose children list holds c
ParentsOf(ns, c) == {i \in DOMAIN ns : c \in Range(ns[i].children)}

Last(s) == s[Len(s)]

\* C1: after any sequence of createChild, createSibling, deleteSubtree and
\* reparent from a single root, the collections are a single-rooted tree:
\* the first node has no incoming edge, every other node has exactly one,
\* the edges have no cycle, and c is in p.children iff an edge p->c exists.
C1_AlwaysTree == ValidTree(nodes, edges)

\* C2: a drag of node a that ends on b is rejected and leaves nodes and
\* edges unchanged whenever b = a or b is reached from a over children lists.
C2_RejectsDescendant ==
    [][\A a \in NodeIds(nodes) : \A b \in DOMAIN nodes :
          ( /\ nodes[b].id = a \/ nodes[b].id \in ChildDescendants(nodes, a)
            /\ handleDragEnd(a, DropOn(b)) )
          => (nodes' = nodes /\ edges' = edges)]_vars

\* C3: in a valid tree a drag of a that ends on b, with b # a and b not a
\* descendant of a, is accepted; afterwards a has exactly one incoming edge,
\* it is b->a, a is the last child of b and a is in no other children list.
C3_AcceptsOthers ==
    [][\A a \in NodeIds(nodes) : \A b \in DOMAIN nodes :
          ( /\ ValidTree(nodes, edges)
            /\ nodes[b].id # a
            /\ nodes[b].id \notin ChildDescendants(nodes, a)
            /\ handleDragEnd(a, DropOn(b)) )
          => /\ last'.to = nodes[b].id
             /\ InDegree(edges', a) = 1
             /\ HasEdge(edges', nodes[b].id, a)
             /\ nodes'[b].children # <<>>
             /\ Last(nodes'[b].children) = a
             /\ ParentsOf(nodes', a) = {b}]_vars

\* C4: in a valid tree deleteSubtree(x) removes exactly x and its transitive
\* descendants; afterwards no edge and no children list names a removed id,
\* and every edge between two remaining nodes is kept.
C4_DeleteSubtree ==
    [][\A x \in NodeIds(nodes) \cap {last'.id} :
          ( /\ last'.op = "delete"
            /\ ValidTree(nodes, edges)
            /\ handleDeleteNode(x) )
          => LET D == {x} \cup EdgeDescendants(edges, x) IN
             /\ NodeIds(nodes') = NodeIds(nodes) \ D
             /\ Len(nodes') = Len(nodes) - Cardinality(D)
             /\ \A i \in DOMAIN edges' :
                    edges'[i].from \notin D /\ edges'[i].to \notin D
             /\ \A i \in DOMAIN nodes' : Range(nodes'[i].children) \cap D = {}
             /\ \A i \in DOMAIN edges :
                    (edges[i].from \notin D /\ edges[i].to \notin D)
                    => edges[i] \in Range(edges')]_vars

\* a node with a descendant has been deleted from a valid tree, and nodes
\* remain
C4_Witness ==
    /\ last.op = "delete" /\ ~last.threw /\ last.tree
    /\ Cardinality(last.gone) >= 2
    /\ Len(nodes) >= 1

\* C5: in every state reached through the editor's operations on nodes and
\* edges, moving an edge by drag and drop included, e.to is in the children
\* of e.from for every edge e, and every c in p.children has an edge p->c.
C5_Consistent == Consistent(nodes, edges)

\* C6: a successful reparent of a is one update: no state seen afterwards
\* has a with zero or with two incoming edges, nor a in the children lists
\* of both the old and the new parent.
C6_OneParent ==
    [][\A a \in NodeIds(nodes) : \A dist \in Drops :
          (handleDragEnd(a, dist) /\ last'.to # 0)
          => /\ InDegree(edges', a) = 1
             /\ Cardinality(ParentsOf(nodes', a)) = 1]_vars

\* C7: createChild(p) for an existing p adds one node with no children at
\* the end of nodes and at the end of p.children, adds one edge p->new and
\* leaves every other node and every existing edge as it was.
C7_CreateChild ==
    [][\A p \in NodeIds(nodes) \cap {last'.id} :
          (last'.op = "createChild" /\ handleCreateChild(p))
          => LET new == Last(nodes') IN
             /\ Len(nodes') = Len(nodes) + 1
             /\ new.children = <<>>
             /\ new.id \notin NodeIds(nodes)
             /\ \A i \in DOMAIN nodes :
                    nodes'[i] = IF nodes[i].id = p
                                THEN [nodes[i] EXCEPT
                                        !.children = Append(@, new.id)]
                                ELSE nodes[i]
             /\ Len(edges') = Len(edges) + 1
             /\ SubSeq(edges', 1, Len(edges)) = edges
             /\ Last(edges').from = p
             /\ Last(edges').to = new.id]_vars

\* createChild has run on a node that already had a child
C7_Witness ==
    /\ last.op = "createChild"
    /\ \E p \in DOMAIN nodes :
          /\ nodes[p].id = last.id
          /\ Len(nodes[p].children) >= 2
          /\ Last(nodes[p].children) = Last(nodes).id

\* C8: createSibling(n) for an existing n adds one node and one edge q->new
\* with new the last child of q, where q is the root when n is the root and
\* n's current parent otherwise; nothing else changes.
C8_CreateSibling ==
    [][\A n \in NodeIds(nodes) :
          handleCreateSibling(n)
          => \E q \in NodeIds(nodes) :
                LET new == Last(nodes') IN
                /\ IF n = nodes[1].id THEN q = n ELSE HasEdge(edges, q, n)
                /\ Len(nodes') = Len(nodes) + 1
                /\ new.id \notin NodeIds(nodes)
                /\ \A i \in DOMAIN nodes :
                       nodes'[i] = IF nodes[i].id = q
                                   THEN [nodes[i] EXCEPT
                                           !.children = Append(@, new.id)]
                                   ELSE nodes[i]
                /\ Len(edges') = Len(edges) + 1
                /\ SubSeq(edges', 1, Len(edges)) = edges
                /\ Last(edges').from = q
                /\ Last(edges').to = new.id]_vars

\* C9: createChild, createSibling, deleteSubtree, reparent and updateNode
\* called with an id no node has leave nodes and edges as they were and
\* throw nothing; after deleteSubtree(x) no node has id x, so a second
\* deleteSubtree(x) changes nothing.
C9_AbsentId ==
    [][\A x \in {last'.id} :
          /\ ( /\ x \notin NodeIds(nodes)
               /\ \/ last'.op = "createChild" /\ handleCreateChild(x)
                  \/ last'.op = "createSibling" /\ handleCreateSibling(x)
                  \/ last'.op = "delete" /\ handleDeleteNode(x)
                  \/ last'.op = "dragEnd"
                     /\ \E dist \in Drops : handleDragEnd(x, dist)
                  \/ last'.op = "update"
                     /\ \E updates \in UpdateChoices(x) :
                           handleUpdateNode(x, updates) )
             => (nodes' = nodes /\ edges' = edges /\ ~last'.threw)
          /\ (last'.op = "delete" /\ ~last'.threw /\ handleDeleteNode(x))
             => x \notin NodeIds(nodes')]_vars

\* a handler has run with an id that no node has
C9_Witness ==
    /\ last.op \in {"createChild", "createSibling", "delete", "dragEnd",
                    "update"}
    /\ last.id \notin NodeIds(nodes)
    /\ last.gone \subseteq {last.id}
    /\ Len(nodes) >= 2

\* C10: updateNode(n, fields) changes only those fields of node n: the
\* order and ids of nodes, every children list, every other node and the
\* edges stay as they were.
C10_UpdateNode ==
    [][\A n \in {last'.id} : \A updates \in UpdateChoices(n) :
          (last'.op = "update" /\ handleUpdateNode(n, updates))
          => /\ edges' = edges
             /\ Len(nodes') = Len(nodes)
             /\ \A i \in DOMAIN nodes :
                    /\ nodes'[i].id = nodes[i].id
                    /\ nodes'[i].children = nodes[i].children
                    /\ nodes[i].id # n => nodes'[i] = nodes[i]
                    /\ \A f \in DOMAIN nodes[i] \ DOMAIN updates :
                           /\ f \in DOMAIN nodes'[i]
                           /\ nodes'[i][f] = nodes[i][f]
                    /\ DOMAIN nodes'[i] \subseteq
                           DOMAIN nodes[i] \cup DOMAIN updates]_vars

\* updateNode has run on a node that has a child, and its update shows
C10_Witness ==
    /\ last.op = "update"
    /\ \E i \in DOMAIN nodes :
          /\ nodes[i].id = last.id
          /\ nodes[i].children # <<>>
          /\ \/ nodes[i].text = "t"
             \/ nodes[i].x = 100
             \/ "collapsed" \in DOMAIN nodes[i]

\* no two nodes share an id and no two edges share an id
UniqueIds(ns, es) ==
    /\ \A i, j \in DOMAIN ns : ns[i].id = ns[j].id => i = j
    /\ \A i, j \in DOMAIN es : es[i].id = es[j].id => i = j

\* C11: in every reachable state no two nodes share an id and no two edges
\* share an id, the ids of created nodes and edges being answers of
\* generateId().
C11_UniqueIds == UniqueIds(nodes, edges)


\* the branch anchors of n: the direct children of the root that are n or
\* from which edges lead to n
Anchors(ns, es, n) ==
    {a \in Range(ns[1].children) : a = n \/ n \in EdgeDescendants(es, a)}

\* the palette entry of the root's child at index i (from 0)
PaletteAt(i) == BRANCH_COLORS[Min({i, Len(BRANCH_COLORS) - 1}) + 1]

\* getBranchColor was called with the id of a node that is not the root
PaintedBranch ==
    /\ color # NoCall
    /\ color.branchId \in NodeIds(nodes) \ {nodes[1].id}

C15_Terminates ==
    PaintedBranch =>
        /\ color.value # NeverReturns
        /\ Anchors(nodes, edges, color.branchId) = {} =>
               color.value = BRANCH_COLORS[1]


RECURSIVE AncestorChain(_, _, _)
AncestorChain(es, n, seen) ==
    IF FindEdgeTo(es, n) = 0 \/ es[FindEdgeTo(es, n)].from \in seen
    THEN <<>>
    ELSE <<es[FindEdgeTo(es, n)].from>>
         \o AncestorChain(es, es[FindEdgeTo(es, n)].from,
                          seen \cup {es[FindEdgeTo(es, n)].from})

\* C16: a node that survives a step from a valid tree to a valid tree with
\* the same chain of ancestors has the same color before and after.
C16_StableColor ==
    [][(ValidTree(nodes, edges) /\ ValidTree(nodes', edges')
        /\ Len(nodes) > 0 /\ Len(nodes') > 0)
       => \A n \in NodeIds(nodes) \cap NodeIds(nodes') :
            AncestorChain(edges', n, {n}) = AncestorChain(edges, n, {n})
               => getBranchColor(n, nodes', edges')
                    = getBranchColor(n, nodes, edges)]_vars


\* the fields of a stored record that saveMap takes from its argument
SameMap(r, m) ==
    /\ r.id = m.id /\ r.name = m.name
    /\ r.nodes = m.nodes /\ r.edges = m.edges

\* C19: after saveMap(m) the list holds exactly one record with id m.id,
\* with m's name, nodes and edges and the time of the call as updatedAt;
\* the records with another id are the same, at the same index.
C19_Upsert ==
    [][ret'.op = "saveMap" =>
         \A m \in {ret'.value} :
            /\ Cardinality({i \in DOMAIN maps' : maps'[i].id = m.id}) = 1
            /\ SameMap(getMap(maps', m.id), m)
            /\ getMap(maps', m.id).updatedAt = ret'.at
            /\ \A i \in DOMAIN maps :
                 maps[i].id # m.id => (i \in DOMAIN maps' /\ maps'[i] = maps[i])
            /\ \A i \in DOMAIN maps' :
                 maps'[i].id # m.id => i \in DOMAIN maps]_vars

\* saveMap replaced the first of two stored records by a map with other
\* nodes
C19_Witness ==
    /\ ret.op = "saveMap"
    /\ Len(maps) = 2
    /\ maps[1].id = ret.value.id
    /\ Len(maps[1].nodes) = 2
    /\ maps[1].createdAt = 0


\* C20: duplicateMap(id) of a stored id appends one record whose id no
\* stored map had, named after the original with " (Copy)" added, with the
\* original's nodes and edges, and leaves every stored record as it was;
\* for an id that is not stored it answers null and leaves the list as it is.
C20_Duplicate ==
    [][ret'.op = "duplicateMap" =>
         \A original \in {getMap(maps, ret'.id)} :
            IF original = NoMap
            THEN ret'.value = NoMap /\ maps' = maps
            ELSE /\ Len(maps') = Len(maps) + 1
                 /\ \A i \in DOMAIN maps : maps'[i] = maps[i]
                 /\ \A i \in DOMAIN maps : maps[i].id # Last(maps').id
                 /\ Last(maps').name = original.name \o " (Copy)"
                 /\ Last(maps').nodes = original.nodes
                 /\ Last(maps').edges = original.edges]_vars


\* the record of the edited map in storage
Stored == getMap(maps, LoadedMap.id)

\* the editor holds nodes or edges that storage does not hold
Unsaved == Stored.nodes # nodes \/ Stored.edges # edges

\* C17: whenever the editor's collections differ from the stored ones, a
\* save follows after which storage holds the collections of the editor,
\* whatever happens in between, an unmount included.
C17_EventuallySaved == Unsaved ~> ~Unsaved


\* C18: at most one timeout is pending; a run of the effect for changed
\* nodes or edges leaves its own timeout, holding these nodes and edges, as
\* the only one; and when a timeout expires the save holds the nodes and
\* edges of the editor and no timeout is left, so that the changes made
\* since the last save are written once, after the last of them.
C18_Debounced ==
    /\ [](Cardinality(timers) <= 1)
    /\ [][deps' # deps =>
            timers' = {[id |-> timeoutId', nodes |-> nodes, edges |-> edges]}
       ]_vars
    /\ [][(mounted' = mounted /\ deps' = deps /\ timers' # timers) =>
            /\ timers' = {}
            /\ getMap(maps', LoadedMap.id).nodes = nodes
            /\ getMap(maps', LoadedMap.id).edges = edges]_vars

\* the effect has set its third timeout, for nodes created in two steps
\* since the last save
C18_Witness ==
    /\ timeoutId = 3
    /\ \E timer \in timers : Len(timer.nodes) = 3
    /\ Len(Stored.nodes) = 1
    /\ Stored.updatedAt = 0


\* localStorage is unavailable or holds no list of maps
Failing == fault = "unavailable" \/ storedKind # "list"

\* C21: whatever the condition of localStorage, getAllMaps, getMap, saveMap,
\* deleteMap and duplicateMap end without an exception; with localStorage
\* unavailable or the stored value corrupt the reads answer the empty list
\* and null; and a write that fails leaves the stored value and the editor's
\* nodes and edges as they were.
C21_NoEscape ==
    /\ [][ret' # ret =>
            /\ ~ret'.threw
            /\ (ret'.op = "getAllMaps" /\ Failing) =>
                   (ret'.value.isList /\ ret'.value.maps = <<>>)
            /\ (ret'.op = "getMap" /\ Failing) => ret'.value = NoMap
            /\ SetItemThrows => (maps' = maps /\ storedKind' = storedKind)
            /\ nodes' = nodes /\ edges' = edges]_vars


\* C22: an empty node collection does not stay empty: the next change of
\* the editor's state gives it exactly one node, a root without children,
\* and that change does come.
C22_RootCreated ==
    /\ (Len(nodes) = 0) ~> (Len(nodes) = 1 /\ nodes[1].children = <<>>)
    /\ [][Len(nodes) = 0 =>
            (Len(nodes') = 1 /\ nodes'[1].children = <<>>)]_editor

\* the root was created anew after the whole tree had been deleted
C22_Witness ==
    /\ last.op = "rootInit"
    /\ idCount > 1
    /\ Len(nodes) = 1
    /\ nodes[1].text = "Start Here"

\* some node is selected, alone or in the multi-selection
HasSelection == selectedNodeId # 0 \/ selectedNodes # <<>>

\* C23: the Escape key with a node selected deselects: selectedNodeId
\* becomes null, the multi-selection becomes empty, and nodes and edges
\* stay as they are
C23_EscapeDeselects ==
    [][(HasSelection /\ handleKeyDown("Escape"))
          => /\ selectedNodeId' = 0
             /\ selectedNodes' = <<>>
             /\ nodes' = nodes
             /\ edges' = edges]_vars

\* the ids Delete has to remove for a multi-selection: the selected nodes
\* and their descendants
SelectionSubtrees ==
    UNION {findDescendants(nodes, selectedNodes[i]) : i \in DOMAIN selectedNodes}

\* C24: with two or more nodes in the multi-selection, the Delete key
\* removes every selected node and every descendant of one, leaves no edge
\* that refers to any of them, and empties the selection
C24_DeleteSelection ==
    [][(Len(selectedNodes) >= 2 /\ handleKeyDown("Delete"))
          => /\ NodeIds(nodes') \cap SelectionSubtrees = {}
             /\ \A i \in DOMAIN edges' :
                    /\ edges'[i].from \notin SelectionSubtrees
                    /\ edges'[i].to \notin SelectionSubtrees
             /\ selectedNodes' = <<>>
             /\ selectedNodeId' = 0]_vars

\* the stored place of the node with the id lies on the grid
OnGrid(ns, id) ==
    \A i \in DOMAIN ns :
        ns[i].id = id => ns[i].x % gridSize = 0 /\ ns[i].y % gridSize = 0

\* C25: while the grid is on, a drag-move event of a node, once both
\* callbacks of the Node (onDragMove and onPositionChange) are processed,
\* leaves the stored x and y of the node at multiples of gridSize
C25_Snapped ==
    [][\A id \in Ids, x \in Coords, y \in Coords :
          (showGrid /\ handleMouseMove(id, x, y)) => OnGrid(nodes', id)]_vars

\* C26: deleteSubtree(x) terminates in every state the operations
\* (createChild, createSibling, deleteSubtree, reparenting by a drop,
\* re-targeting an edge) reach: the descent of findDescendants comes to an
\* end and handleDeleteNode returns without an exception
C26_DeleteTerminates ==
    /\ \A id \in Ids : ~Overflows(nodes, id)
    /\ last.op = "delete" => ~last.threw

\* C27: while the text of a node is being edited, the keys Backspace,
\* Delete, Enter and Tab add and remove no node and no edge
C27_EditingKeys ==
    [][\A key \in {"Backspace", "Delete", "Enter", "Tab"} :
          (Editing /\ handleKeyDown(key))
              => /\ NodeIds(nodes') = NodeIds(nodes)
                 /\ Len(nodes') = Len(nodes)
                 /\ edges' = edges]_vars

\* C28: deleting a node that is not the first node of the collection leaves
\* the first node in its place: after handleDeleteNode(x) with x another
\* node than the first, the collection still starts with the same node
C28_RootStays ==
    [][\A x \in Ids :
          (Len(nodes) > 0 /\ x # nodes[1].id /\ handleDeleteNode(x))
              => Len(nodes') > 0 /\ nodes'[1].id = nodes[1].id]_vars

\* C29: the selection refers to no deleted node: selectedNodeId is null or
\* the id of a node of the collection, and so is every id of the
\* multi-selection, whatever has deleted a node (the Delete or Backspace
\* key, the delete button of a node, the deletion of an ancestor)
C29_SelectionExists ==
    /\ selectedNodeId = 0 \/ selectedNodeId \in NodeIds(nodes)
    /\ Range(selectedNodes) \subseteq NodeIds(nodes)

\* no handler has run since the editor was mounted
Untouched == last.op = "init"

\* C30: a save follows a change only: from the mount on a map with nodes to
\* the first change of nodes or edges nothing is saved, and a save leaves no
\* timeout and no run of the effect behind, so that nothing more is saved
\* until nodes or edges change again
C30_SaveOnChange ==
    /\ [][Untouched => maps' = maps]_vars
    /\ [][maps' # maps => (timers' = {} /\ ~EffectPending')]_vars
====
